---- MODULE Spec2Model ----
(***************************************************************************)
(* Model of windower.py: the window builder (create_windows), the record   *)
(* normaliser (filter_and_process_data) with clean_data before it, the     *)
(* output sink (dict_to_csv, dict_to_json) and the watch loop (watch_file).*)
(*                                                                         *)
(* Python values are tagged records of one shape, a dict is a function     *)
(* from key strings to values, a list is a sequence.  Floats are modelled  *)
(* by exact rationals num/den; a standard deviation is kept as the root of *)
(* a rational (tag "sqrt"), NaN has its own tag.  A number too large for   *)
(* one machine word of the checker is hi * Limb + num with 0 <= num < Limb;*)
(* such numbers occur only as timestamps offered to the normaliser.  The   *)
(* sums of the window loop are rounded as float sums are (Fl).             *)
(***************************************************************************)
EXTENDS Integers, Sequences, FiniteSets, TLC

\* ---------------------------------------------------------------- bounds
MaxRecs  == 3       \* records in one create_windows input
MaxItems == 3       \* records handed to one dict_to_csv / dict_to_json call
MaxChunk == 3       \* largest buffer_size
MaxAppends == 3     \* records the writer of a watched source appends
MaxTicks == 4       \* iterations of the watch loop
MaxCallRecs == 2    \* records handed to one call of an entry point
MaxEntries == 2     \* records handed to one call of filter_and_process_data
Mantissa == 3       \* significant bits of a float (53 in the code)
StartTime == 10     \* the clock when the watch loop starts

\* the record timestamps of a create_windows input
Times == {1, 2, 3}

\* the window lengths and steps tried: overlapping (step < length), adjacent
\* (step = length) and gapped (step > length) windows
Lengths == {1, 2}

FieldNames == {"A", "B"}

\* ---------------------------------------------------------------- values
RECURSIVE GCD(_, _)
GCD(a, b) == IF b = 0 THEN a ELSE GCD(b, a % b)

Abs(n) == IF n < 0 THEN -n ELSE n

\* numbers of 10 decimal digits are kept in two limbs of 5 digits
Limb == 100000

None   == [tag |-> "none", hi |-> 0, num |-> 0, den |-> 1, txt |-> ""]
NaN    == [tag |-> "nan",  hi |-> 0, num |-> 0, den |-> 1, txt |-> ""]
Num(n) == [tag |-> "num",  hi |-> 0, num |-> n, den |-> 1, txt |-> ""]
Big(h, n) == [tag |-> "num", hi |-> h, num |-> n, den |-> 1, txt |-> ""]
Str(t) == [tag |-> "str",  hi |-> 0, num |-> 0, den |-> 1, txt |-> t]
\* True and False are the ints 1 and 0 to isinstance, float() and comparisons
Bool(b) == [tag |-> "bool", hi |-> 0, num |-> IF b THEN 1 ELSE 0, den |-> 1, txt |-> ""]

\* float(v) of an int, a bool or a float: True is 1.0, NaN stays NaN
Float(v) == IF v.tag = "nan" THEN v ELSE [v EXCEPT !.tag = "num"]

\* the float n/d (d > 0), in lowest terms
Ratio(n, d) ==
    LET g == GCD(Abs(n), d)
    IN  [tag |-> "num", hi |-> 0, num |-> n \div g, den |-> d \div g, txt |-> ""]

\* the float sqrt(n/d) (n >= 0, d > 0)
Sqrt(n, d) ==
    LET g == GCD(n, d)
    IN  [tag |-> "sqrt", hi |-> 0, num |-> n \div g, den |-> d \div g, txt |-> ""]

\* dict.get(key): None when the key is absent
Get(d, k) == IF k \in DOMAIN d THEN d[k] ELSE None

\* {**a, **b}: the entries of b override those of a
Merge(a, b) ==
    [k \in (DOMAIN a) \cup (DOMAIN b) |-> IF k \in DOMAIN b THEN b[k] ELSE a[k]]

RECURSIVE SelectSeqIdx(_, _, _)
\* the subsequence of s at the positions i with Keep(i), used for boolean masks
SelectSeqIdx(s, keep, i) ==
    IF i > Len(s) THEN <<>>
    ELSE (IF i \in keep THEN <<s[i]>> ELSE <<>>) \o SelectSeqIdx(s, keep, i + 1)

\* ----------------------------------------------------- create_windows
\* create_windows without line 345: the rows stay in the order of the input
SortValuesMut(rows) == rows

\* DataFrame.sort_values("timestamp"): insertion of each row after the rows
\* that are not later than it
RECURSIVE InsertSorted(_, _)
InsertSorted(sorted, row) ==
    IF sorted = <<>> THEN <<row>>
    ELSE IF sorted[Len(sorted)]["timestamp"].num <= row["timestamp"].num
         THEN Append(sorted, row)
         ELSE Append(InsertSorted(SubSeq(sorted, 1, Len(sorted) - 1), row),
                     sorted[Len(sorted)])

RECURSIVE SortValues(_)
SortValues(rows) ==
    IF rows = <<>> THEN <<>>
    ELSE InsertSorted(SortValues(SubSeq(rows, 1, Len(rows) - 1)), rows[Len(rows)])

\* the columns of pd.DataFrame(data): every key of every row
Columns(rows) == UNION {DOMAIN rows[i] : i \in 1..Len(rows)}

\* select_dtypes(include=["number"]) without "timestamp": a column is numeric
\* when every value present in it is a number
IsNumber(v) == v.tag \in {"num", "sqrt", "nan", "bool"}

NumericColumns(rows) ==
    {c \in Columns(rows) \ {"timestamp"} :
        \A i \in 1..Len(rows) : c \in DOMAIN rows[i] => IsNumber(rows[i][c])}

\* df[(df.timestamp >= start_time) & (df.timestamp < end_time)]
WindowDfMut(df, start_time, end_time) ==
    SelectSeqIdx(df, {i \in 1..Len(df) :
                        /\ df[i]["timestamp"].num >= start_time
                        /\ df[i]["timestamp"].num <= end_time}, 1)

WindowDf(df, start_time, end_time) ==
    SelectSeqIdx(df, {i \in 1..Len(df) :
                        /\ df[i]["timestamp"].num >= start_time
                        /\ df[i]["timestamp"].num < end_time}, 1)

\* the column with its missing values filled with 0
ColumnValuesMut(rows, c) ==
    [i \in 1..Len(rows) |-> IF c \in DOMAIN rows[i] THEN rows[i][c].num ELSE 0]

\* the non-missing values of one column of a frame, in row order
ColumnValues(rows, c) ==
    LET present == SelectSeqIdx(rows, {i \in 1..Len(rows) : c \in DOMAIN rows[i]}, 1)
    IN  [i \in 1..Len(present) |-> present[i][c].num]

\* the distance between two neighbouring floats at x: 1 below 2^Mantissa,
\* doubled with every power of two above
RECURSIVE Spacing(_, _)
Spacing(x, s) == IF x < (2 ^ Mantissa) * s THEN s ELSE Spacing(x, 2 * s)

\* x rounded to the nearest multiple of s, a tie to the even one
RoundTo(x, s) ==
    IF 2 * (x % s) < s \/ (2 * (x % s) = s /\ (x \div s) % 2 = 0)
    THEN x - (x % s)
    ELSE x - (x % s) + s

\* the float that a sum of floats is: the exact sum x, rounded
Fl(x) == RoundTo(x, Spacing(x, 1))

RECURSIVE FloatSum(_, _, _)
\* the sum of the floats s[i..], added one after the other to acc in row
\* order, each partial sum rounded
FloatSum(s, i, acc) == IF i > Len(s) THEN acc ELSE FloatSum(s, i + 1, Fl(acc + s[i]))

RECURSIVE SeqSum(_)
SeqSum(s) == IF s = <<>> THEN 0 ELSE s[1] + SeqSum(Tail(s))

RECURSIVE SeqMin(_)
SeqMin(s) == IF Len(s) = 1 THEN s[1]
             ELSE LET m == SeqMin(Tail(s)) IN IF s[1] < m THEN s[1] ELSE m

RECURSIVE SeqMax(_)
SeqMax(s) == IF Len(s) = 1 THEN s[1]
             ELSE LET m == SeqMax(Tail(s)) IN IF s[1] > m THEN s[1] ELSE m

\* Series.agg("min" / "max" / "mean" / "std"), missing values skipped
AggMin(xs)  == IF xs = <<>> THEN NaN ELSE Num(SeqMin(xs))
AggMax(xs)  == IF xs = <<>> THEN NaN ELSE Num(SeqMax(xs))
AggMean(xs) == IF xs = <<>> THEN NaN ELSE Ratio(FloatSum(xs, 1, 0), Len(xs))

\* std with ddof = 0 (population deviation)
AggStdMut(xs) ==
    LET n  == Len(xs)
        s  == SeqSum(xs)
        s2 == SeqSum([i \in 1..n |-> xs[i] * xs[i]])
    IN  IF n < 1 THEN NaN ELSE Sqrt(n * s2 - s * s, n * n)

\* std with ddof = 1: sum((x - mean)^2) / (n - 1) = (n*s2 - s^2) / (n*(n-1))
AggStd(xs) ==
    LET n  == Len(xs)
        s  == SeqSum(xs)
        s2 == SeqSum([i \in 1..n |-> xs[i] * xs[i]])
    IN  IF n < 2 THEN NaN ELSE Sqrt(n * s2 - s * s, n * (n - 1))

StatNames == {"min", "max", "mean", "std"}

StatKey(stat, key) == stat \o "_" \o key

\* flat_stats: {f"{stat}_{key}": value} over the numeric columns
FlatStats(window_df, numeric_columns) ==
    LET pairs == {<<stat, key>> : stat \in StatNames, key \in numeric_columns}
        val(stat, key) ==
            LET xs == ColumnValues(window_df, key)
            IN  CASE stat = "min"  -> AggMin(xs)
                  [] stat = "max"  -> AggMax(xs)
                  [] stat = "mean" -> AggMean(xs)
                  [] stat = "std"  -> AggStd(xs)
    IN  [k \in {StatKey(p[1], p[2]) : p \in pairs} |->
            LET p == CHOOSE q \in pairs : StatKey(q[1], q[2]) = k
            IN  val(p[1], p[2])]

\* the window appended to results
WindowRow(window_index, start_time, end_time, flat_stats) ==
    Merge([k \in {"window_index", "window_start", "window_end"} |->
              CASE k = "window_index" -> Num(window_index)
                [] k = "window_start" -> Num(start_time)
                [] k = "window_end"   -> Num(end_time)],
          flat_stats)

\* line 369: end_time = start_time + window_length
EndTimeMut(start_time, window_length, step) == start_time + step

EndTime(start_time, window_length, step) == Fl(start_time + window_length)

\* lines 382 and 407: start_time += step
NextStartMut(start_time, window_length, step) == start_time + window_length

NextStart(start_time, window_length, step) == Fl(start_time + step)

\* the index after a slot that selected no record: every slot takes an index
EmptySlotIndexMut(window_index) == window_index + 1

\* the index after a slot that selected no record: lines 374 and 407, unchanged
EmptySlotIndex(window_index) == window_index

\* one pass of the body of `while start_time <= max_time`
\* st = [start_time, window_index, results]; a slice keeps the dtypes of df,
\* so the numeric columns of window_df are those of df
WindowIter(df, window_length, step, st) ==
    LET end_time  == EndTime(st.start_time, window_length, step)
        window_df == WindowDf(df, st.start_time, end_time)
        numeric_columns == NumericColumns(df)
        next_start == NextStart(st.start_time, window_length, step)
    IN  IF window_df = <<>>
        THEN [st EXCEPT !.start_time = next_start,
                        !.window_index = EmptySlotIndex(@)]
        ELSE IF numeric_columns = {}
        THEN [st EXCEPT !.start_time = next_start, !.window_index = @ + 1]
        ELSE [start_time   |-> next_start,
              window_index |-> st.window_index + 1,
              results      |-> Append(st.results,
                                  WindowRow(st.window_index, st.start_time, end_time,
                                            FlatStats(window_df, numeric_columns)))]

MinTime(df) == df[1]["timestamp"].num
MaxTime(df) == df[Len(df)]["timestamp"].num

\* line 368 with a strict comparison: the slot that starts at max_time is left out
WhileTestMut(start_time, max_time) == start_time < max_time

\* line 368: while start_time <= max_time
WhileTest(start_time, max_time) == start_time <= max_time

RECURSIVE WindowLoop(_, _, _, _)
WindowLoop(df, window_length, step, st) ==
    IF WhileTest(st.start_time, MaxTime(df))
    THEN WindowLoop(df, window_length, step, WindowIter(df, window_length, step, st))
    ELSE st.results

\* lines 351-352, 368 and 407: with a step that is not positive start_time
\* never passes max_time, and the while loop does not end
LoopsForever(data, window_length, step) ==
    /\ data # <<>>
    /\ "timestamp" \in Columns(data)
    /\ (IF step = None THEN window_length ELSE step.num) <= 0

\* create_windows(data, window_length, step): the rows of the returned frame;
\* step is None or a number; defined when the loop ends
CreateWindows(data, window_length, step) ==
    IF data = <<>> THEN <<>>
    ELSE IF "timestamp" \notin Columns(data) THEN <<>>
    ELSE LET df == SortValues(data)
         IN  WindowLoop(df, window_length,
                        IF step = None THEN window_length ELSE step.num,
                        [start_time |-> MinTime(df), window_index |-> 0, results |-> <<>>])

\* ------------------------------------------------------ safe_parse_json
\* the characters of a string
Chars(t) == [i \in 1..Len(t) |-> SubSeq(t, i, i)]

RECURSIVE JoinChars(_)
\* the string made of the characters cs
JoinChars(cs) == IF cs = <<>> THEN "" ELSE cs[1] \o JoinChars(Tail(cs))

Digits == {"0", "1", "2", "3", "4", "5", "6", "7", "8", "9"}

DigitVal(c) ==
    CASE c = "0" -> 0 [] c = "1" -> 1 [] c = "2" -> 2 [] c = "3" -> 3 [] c = "4" -> 4
      [] c = "5" -> 5 [] c = "6" -> 6 [] c = "7" -> 7 [] c = "8" -> 8 [] c = "9" -> 9

\* str.lower(), character by character
LowerChar(c) ==
    CASE c = "A" -> "a" [] c = "B" -> "b" [] c = "C" -> "c" [] c = "D" -> "d" [] c = "E" -> "e" [] c = "F" -> "f"
      [] c = "G" -> "g" [] c = "H" -> "h" [] c = "I" -> "i" [] c = "J" -> "j" [] c = "K" -> "k" [] c = "L" -> "l"
      [] c = "M" -> "m" [] c = "N" -> "n" [] c = "O" -> "o" [] c = "P" -> "p" [] c = "Q" -> "q" [] c = "R" -> "r"
      [] c = "S" -> "s" [] c = "T" -> "t" [] c = "U" -> "u" [] c = "V" -> "v" [] c = "W" -> "w" [] c = "X" -> "x"
      [] c = "Y" -> "y" [] c = "Z" -> "z"
      [] OTHER -> c

Lower(t) == JoinChars([i \in 1..Len(t) |-> LowerChar(SubSeq(t, i, i))])

RECURSIVE LStrip(_, _)
LStrip(cs, drop) ==
    IF cs # <<>> /\ cs[1] \in drop THEN LStrip(Tail(cs), drop) ELSE cs

RECURSIVE RStrip(_, _)
RStrip(cs, drop) ==
    IF cs # <<>> /\ cs[Len(cs)] \in drop
    THEN RStrip(SubSeq(cs, 1, Len(cs) - 1), drop) ELSE cs

\* str.strip(chars): the characters of `drop` removed from both ends only
Strip(cs, drop) == RStrip(LStrip(cs, drop), drop)

Whitespace == {" ", "\n", "\t", "\r"}

\* str.replace("'", "\"")
ReplaceQuotes(cs) == [i \in 1..Len(cs) |-> IF cs[i] = "'" THEN "\"" ELSE cs[i]]

\* the position of the first character at or after i that is not whitespace
RECURSIVE SkipWs(_, _)
SkipWs(cs, i) ==
    IF i <= Len(cs) /\ cs[i] \in Whitespace THEN SkipWs(cs, i + 1) ELSE i

\* the position of the first double quote at or after i (Len + 1 when none)
RECURSIVE FindQuote(_, _)
FindQuote(cs, i) ==
    IF i > Len(cs) \/ cs[i] = "\"" THEN i ELSE FindQuote(cs, i + 1)

ParseFail == [ok |-> FALSE, val |-> None, next |-> 0]

\* the word w stands at position i of cs
WordAt(cs, i, w) ==
    /\ i + Len(w) - 1 <= Len(cs)
    /\ JoinChars(SubSeq(cs, i, i + Len(w) - 1)) = w

\* a JSON scalar starting at i: a one-digit number, a string, true, false, null
ParseScalar(cs, i) ==
    IF i > Len(cs) THEN ParseFail
    ELSE IF cs[i] \in Digits /\ ~(i < Len(cs) /\ cs[i + 1] \in Digits \cup {".", "e", "E"})
         THEN [ok |-> TRUE, val |-> Num(DigitVal(cs[i])), next |-> i + 1]
    ELSE IF WordAt(cs, i, "true")  THEN [ok |-> TRUE, val |-> Bool(TRUE),  next |-> i + 4]
    ELSE IF WordAt(cs, i, "false") THEN [ok |-> TRUE, val |-> Bool(FALSE), next |-> i + 5]
    ELSE IF WordAt(cs, i, "null")  THEN [ok |-> TRUE, val |-> None, next |-> i + 4]
    ELSE IF cs[i] = "\""
         THEN LET j == FindQuote(cs, i + 1)
              IN  IF j > Len(cs) THEN ParseFail
                  ELSE [ok |-> TRUE, val |-> Str(JoinChars(SubSeq(cs, i + 1, j - 1))),
                        next |-> j + 1]
    ELSE ParseFail

\* the members of a JSON object from position i on, up to the closing brace;
\* acc is the dict read so far
RECURSIVE ParseMembers(_, _, _)

\* after the value v of a member: the brace that ends the object, or a comma
MemberEnd(cs, d, e) ==
    IF e > Len(cs) THEN ParseFail
    ELSE IF cs[e] = "}" THEN [ok |-> TRUE, val |-> d, next |-> e + 1]
    ELSE IF cs[e] = "," THEN ParseMembers(cs, e + 1, d)
    ELSE ParseFail

\* the value v read for the key
MemberValue(cs, acc, key, v) ==
    IF ~v.ok THEN ParseFail
    ELSE MemberEnd(cs, Merge(acc, [x \in {key} |-> v.val]), SkipWs(cs, v.next))

\* the colon expected at c
MemberColon(cs, acc, key, c) ==
    IF c > Len(cs) \/ cs[c] # ":" THEN ParseFail
    ELSE MemberValue(cs, acc, key, ParseScalar(cs, SkipWs(cs, c + 1)))

\* the key k, which must be a string
MemberKey(cs, acc, k) ==
    IF ~k.ok \/ k.val.tag # "str" THEN ParseFail
    ELSE MemberColon(cs, acc, k.val.txt, SkipWs(cs, k.next))

ParseMembers(cs, i, acc) == MemberKey(cs, acc, ParseScalar(cs, SkipWs(cs, i)))

EmptyDict == [x \in {} |-> None]

\* orjson.loads of the characters cs: kind "dict" with the dict in val, kind
\* "scalar" with the value in val, or ok = FALSE for a JSONDecodeError.  The
\* texts read here are flat objects and scalars with one-digit numbers and
\* strings without escapes; anything else is a decode error.
LoadsFail == [ok |-> FALSE, kind |-> "none", val |-> None]

\* the value r was read: nothing but whitespace may follow it
LoadsEnd(cs, r, kind) ==
    IF r.ok /\ SkipWs(cs, r.next) > Len(cs)
    THEN [ok |-> TRUE, kind |-> kind, val |-> r.val]
    ELSE LoadsFail

\* an object whose first member, or closing brace, is at j
LoadsObject(cs, j) ==
    LoadsEnd(cs, IF j <= Len(cs) /\ cs[j] = "}"
                 THEN [ok |-> TRUE, val |-> EmptyDict, next |-> j + 1]
                 ELSE ParseMembers(cs, j, EmptyDict),
             "dict")

\* the value that starts at i
LoadsAt(cs, i) ==
    IF i > Len(cs) THEN LoadsFail
    ELSE IF cs[i] = "{" THEN LoadsObject(cs, SkipWs(cs, i + 1))
    ELSE LoadsEnd(cs, ParseScalar(cs, i), "scalar")

Loads(cs) == LoadsAt(cs, SkipWs(cs, 1))

\* Python truthiness of a value
Truthy(v) ==
    CASE v.tag = "none" -> FALSE
      [] v.tag = "str"  -> v.txt # ""
      [] v.tag \in {"num", "bool"} -> v.num # 0
      [] OTHER -> TRUE

\* the stripped text with its single quotes made double quotes when it starts
\* with a quote or a brace
CleanedStr(stripped) ==
    IF stripped # <<>> /\ stripped[1] \in {"'", "{"}
    THEN ReplaceQuotes(stripped) ELSE stripped

\* safe_parse_json(raw_data): the parsed payload, kind "none" for None
SafeParseJson(raw_data) ==
    IF ~Truthy(raw_data) \/ raw_data.tag # "str" THEN LoadsFail
    ELSE Loads(CleanedStr(Strip(Chars(raw_data.txt), Whitespace)))

\* -------------------------------------------------- filter_and_process_data
\* line 242: the upper bound 9999999999, as its two limbs
MaxTimestampHi == 99999
MaxTimestampLo == 99999

\* timestamp > 9999999999
AboveMax(timestamp) ==
    \/ timestamp.hi > MaxTimestampHi
    \/ timestamp.hi = MaxTimestampHi /\ timestamp.num > MaxTimestampLo

\* line 242: timestamp <= 0 or timestamp > 9999999999; both comparisons are
\* False for the float NaN
OutOfRange(timestamp) ==
    /\ timestamp.tag # "nan"
    /\ \/ timestamp.hi < 0
       \/ timestamp.hi = 0 /\ timestamp.num <= 0
       \/ AboveMax(timestamp)

\* is_valid_timestamp(timestamp): None and what is not an int or a float
\* (bool is a subclass of int, NaN is a float) are invalid
IsValidTimestamp(timestamp) ==
    /\ timestamp.tag # "none"
    /\ timestamp.tag \in {"num", "bool", "nan"}
    /\ ~OutOfRange(timestamp)

\* line 264 without name.lower(): the filter entries as they were given
EcuFiltersMut(ecu_name) ==
    IF ecu_name = <<>> THEN {} ELSE {ecu_name[i] : i \in 1..Len(ecu_name)}

\* the filter entries, lower-cased; None when no filter (or an empty one) is given
EcuFilters(ecu_name) ==
    IF ecu_name = <<>> THEN {} ELSE {Lower(ecu_name[i]) : i \in 1..Len(ecu_name)}

\* an element of data that is a list and not a dict: entry.get raises on it
ListEntry == [k \in {"[...]"} |-> None]

\* what one entry does to the loop of filter_and_process_data:
\*   "raise" an exception leaves the function, "skip" the entry is passed
\*   over, "keep" the normalised record in rec is appended
SkipEntry  == [act |-> "skip",  rec |-> EmptyDict]
RaiseEntry == [act |-> "raise", rec |-> EmptyDict]

\* lines 295-299: the numeric values of the parsed payload, as floats
NumericValues(parsed_data) ==
    [k \in {x \in DOMAIN parsed_data : parsed_data[x].tag \in {"num", "bool"}} |->
        Float(parsed_data[k])]

\* lines 301-311: an entry with numeric values is appended
KeepNumeric(timestamp, numeric_values) ==
    IF numeric_values = EmptyDict THEN SkipEntry
    ELSE [act |-> "keep",
          rec |-> Merge([k \in {"timestamp"} |-> Float(timestamp)], numeric_values)]

\* lines 287-311: the entry whose data field raw_data was parsed into parsed
ProcessParsed(timestamp, raw_data, parsed) ==
    IF ~parsed.ok /\ raw_data.tag # "str" THEN RaiseEntry
    ELSE IF ~parsed.ok THEN SkipEntry
    ELSE IF parsed.kind = "scalar"
         THEN (IF Truthy(parsed.val) THEN RaiseEntry ELSE SkipEntry)
    ELSE IF parsed.val = EmptyDict THEN SkipEntry
    ELSE KeepNumeric(timestamp, NumericValues(parsed.val))

\* lines 280-292: the data field of an entry that passed the filter
ProcessData(timestamp, raw_data) ==
    IF ~Truthy(raw_data) THEN SkipEntry
    ELSE ProcessParsed(timestamp, raw_data, SafeParseJson(raw_data))

\* lines 274-277: the name of the entry against the filter
ProcessName(entry, ecu_filters, name) ==
    IF ecu_filters # {} /\ name.tag # "str" THEN RaiseEntry
    ELSE IF ecu_filters # {} /\ Lower(name.txt) \notin ecu_filters THEN SkipEntry
    ELSE ProcessData(Get(entry, "timestamp"), Get(entry, "data"))

\* lines 266-277: one entry of data
ProcessEntry(entry, ecu_filters) ==
    IF entry = ListEntry THEN RaiseEntry
    ELSE IF ~IsValidTimestamp(Get(entry, "timestamp")) THEN SkipEntry
    ELSE ProcessName(entry, ecu_filters,
                     IF "name" \in DOMAIN entry THEN entry["name"] ELSE Str(""))

RECURSIVE FilterLoop(_, _, _, _)

\* the entry at i did r
FilterStep(data, ecu_filters, i, filtered_data, r) ==
    IF r.act = "raise" THEN [raised |-> TRUE, value |-> <<>>]
    ELSE FilterLoop(data, ecu_filters, i + 1,
                    IF r.act = "keep" THEN Append(filtered_data, r.rec)
                    ELSE filtered_data)

\* line 266: for entry in data
FilterLoop(data, ecu_filters, i, filtered_data) ==
    IF i > Len(data) THEN [raised |-> FALSE, value |-> filtered_data]
    ELSE FilterStep(data, ecu_filters, i, filtered_data,
                    ProcessEntry(data[i], ecu_filters))

\* filter_and_process_data(data, ecu_name): the returned list, or raised
FilterAndProcessData(data, ecu_name) ==
    FilterLoop(data, EcuFilters(ecu_name), 1, <<>>)

\* ---------------------------------------------------------------- clean_data
\* s has the substring sub at some position
Contains(s, sub) ==
    \E i \in 1..(Len(s) - Len(sub) + 1) : SubSeq(s, i, i + Len(sub) - 1) = sub

\* str(name) of a name that is not a string; the numbers here have no letter
StrOf(name) == IF name.tag = "bool" THEN (IF name.num = 1 THEN "True" ELSE "False") ELSE "0"

\* lines 46-52: the row is kept when its name is truthy and has no "unknown"
KeepsRow(name) ==
    /\ Truthy(name)
    /\ ~Contains(Lower(IF name.tag = "str" THEN name.txt ELSE StrOf(name)), "unknown")

RECURSIVE CleanLoop(_, _, _)
\* lines 45-52: for row in data; row.get raises on a row that is not a dict
CleanLoop(data, i, cleaned_data) ==
    IF i > Len(data) THEN [raised |-> FALSE, value |-> cleaned_data]
    ELSE IF data[i] = ListEntry THEN [raised |-> TRUE, value |-> <<>>]
    ELSE CleanLoop(data, i + 1,
                   IF KeepsRow(Get(data[i], "name")) THEN Append(cleaned_data, data[i])
                   ELSE cleaned_data)

\* clean_data(data): the returned list, or raised
CleanData(data) == CleanLoop(data, 1, <<>>)

\* ------------------------------------------------------------ output sink
\* the text of a file is a sequence of pieces: literal text, or the rendering
\* of one item (a JSON object with its indentation, or the cells of a CSV row)
Lit(c)  == [lit |-> c,  obj |-> <<>>]
Item(d) == [lit |-> "", obj |-> <<d>>]

RECURSIVE JoinItems(_, _)
\* the items rendered one after the other with sep between two of them
JoinItems(items, sep) ==
    IF items = <<>> THEN <<>>
    ELSE IF Len(items) = 1 THEN <<Item(items[1])>>
    ELSE <<Item(items[1])>> \o sep \o JoinItems(Tail(items), sep)

\* orjson.dumps(items, option=OPT_INDENT_2): "[]" for no item, otherwise the
\* bracket, a line per item with ",\n" between two items, a newline, the bracket
Dumps(items) ==
    IF items = <<>> THEN <<Lit("["), Lit("]")>>
    ELSE <<Lit("["), Lit("\n")>> \o JoinItems(items, <<Lit(","), Lit("\n")>>)
            \o <<Lit("\n"), Lit("]")>>

\* data[i : i + buffer_size] for the 0-based offset i
Chunk(data, i, buffer_size) ==
    SubSeq(data, i + 1, IF i + buffer_size < Len(data) THEN i + buffer_size ELSE Len(data))

\* lines 549-550 without line 552: the chunk keeps its brackets
ChunkJsonMut(chunk) == Dumps(chunk)

\* lines 549-552: the chunk dumped, then chunk_json.strip("[]")
ChunkJson(chunk) == Strip(Dumps(chunk), {Lit("["), Lit("]")})

RECURSIVE JsonChunks(_, _, _)
\* lines 547-559: what the loop over range(0, len(data), buffer_size) writes
JsonChunks(data, i, buffer_size) ==
    IF i >= Len(data) THEN <<>>
    ELSE (IF i > 0 THEN <<Lit(","), Lit("\n")>> ELSE <<>>)
            \o ChunkJson(Chunk(data, i, buffer_size))
            \o JsonChunks(data, i + buffer_size, buffer_size)

\* lines 542-565: the text of the file written in buffered mode
JsonBuffered(data, buffer_size) ==
    <<Lit("["), Lit("\n")>> \o JsonChunks(data, 0, buffer_size) \o <<Lit("\n"), Lit("]")>>

\* line 572: the text of the file written in one call
JsonSingle(data) == Dumps(data)

RECURSIVE SetToSeq(_)
SetToSeq(S) ==
    IF S = {} THEN <<>>
    ELSE LET x == CHOOSE y \in S : TRUE IN <<x>> \o SetToSeq(S \ {x})

\* results_df.columns: the three window keys, then the four statistics of each
\* field.  The frame keeps the fields in the order of first occurrence, which
\* the unordered dicts of the model do not record: the model fixes some order,
\* the same for both writers.
DfColumns(results) ==
    LET keys   == UNION {DOMAIN results[i] : i \in 1..Len(results)}
        fields == SetToSeq({SubSeq(k, 5, Len(k)) :
                               k \in {x \in keys : Len(x) > 4 /\ SubSeq(x, 1, 4) = "min_"}})
        RECURSIVE StatCols(_)
        StatCols(fs) ==
            IF fs = <<>> THEN <<>>
            ELSE <<StatKey("min", fs[1]), StatKey("max", fs[1]),
                   StatKey("mean", fs[1]), StatKey("std", fs[1])>> \o StatCols(Tail(fs))
    IN  <<"window_index", "window_start", "window_end">> \o StatCols(fields)

RECURSIVE JoinStrings(_, _)
\* sep.join(names)
JoinStrings(names, sep) ==
    IF names = <<>> THEN ""
    ELSE IF Len(names) = 1 THEN names[1]
    ELSE names[1] \o sep \o JoinStrings(Tail(names), sep)

\* csv.writer with QUOTE_MINIMAL: a cell holding the delimiter, the quote
\* character or a line break is written in quotes, its quotes doubled
CsvCell(text) ==
    LET cs == Chars(text)
    IN  IF \E i \in 1..Len(cs) : cs[i] \in {";", "\"", "\n", "\r"}
        THEN "\"" \o JoinChars([i \in 1..Len(cs) |->
                                   IF cs[i] = "\"" THEN "\"\"" ELSE cs[i]]) \o "\""
        ELSE text

RECURSIVE CsvRows(_)
\* DataFrame.to_csv(sep=";", index=False, header=False): a line per row
CsvRows(rows) ==
    IF rows = <<>> THEN <<>>
    ELSE <<Item(rows[1]), Lit("\n")>> \o CsvRows(Tail(rows))

RECURSIVE CsvChunks(_, _, _)
\* lines 466-470: what the loop over range(0, len(results_df), buffer_size) writes
CsvChunks(results, i, buffer_size) ==
    IF i >= Len(results) THEN <<>>
    ELSE CsvRows(Chunk(results, i, buffer_size))
            \o CsvChunks(results, i + buffer_size, buffer_size)

\* line 462: header = ";".join(results_df.columns) + "\n"
CsvHeaderBuffered(columns) == JoinStrings(columns, ";") \o "\n"

\* lines 460-470: the text of the file written in buffered mode
CsvBuffered(results, buffer_size) ==
    <<Lit(CsvHeaderBuffered(DfColumns(results)))>> \o CsvChunks(results, 0, buffer_size)

\* line 478: results_df.to_csv(csv_filename, sep=";", index=False)
CsvSingle(results) ==
    LET columns == DfColumns(results)
    IN  <<Lit(JoinStrings([i \in 1..Len(columns) |-> CsvCell(columns[i])], ";") \o "\n")>>
            \o CsvRows(results)

\* the files written so far: a function from file names to texts
NoFiles == [n \in {} |-> <<>>]

WriteFile(files, name, text) == Merge(files, [n \in {name} |-> text])

EndsWith(name, suffix) ==
    /\ Len(name) >= Len(suffix)
    /\ SubSeq(name, Len(name) - Len(suffix) + 1, Len(name)) = suffix

\* a call that returns, one an exception leaves, and one that never returns
Returned(files) == [raised |-> FALSE, hung |-> FALSE, files |-> files]
Raised(files)   == [raised |-> TRUE,  hung |-> FALSE, files |-> files]
Hung(files)     == [raised |-> FALSE, hung |-> TRUE,  files |-> files]

\* lines 454-481: results_df written to csv_filename; an error of the write
\* (io other than "ok") is logged and the call returns
CsvWrite(results, csv_filename, buffered, buffer_size, files, io) ==
    IF results = <<>> THEN Returned(files)
    ELSE IF io # "ok" THEN Returned(files)
    ELSE Returned(WriteFile(files, csv_filename,
                            IF buffered THEN CsvBuffered(results, buffer_size)
                            ELSE CsvSingle(results)))

\* lines 443-452: the windows of filtered_data
CsvWindows(filtered, window_length, csv_filename, step, buffered, buffer_size, files, io) ==
    IF filtered.raised THEN Raised(files)
    ELSE IF filtered.value = <<>> THEN Returned(files)
    ELSE IF LoopsForever(filtered.value, window_length, step) THEN Hung(files)
    ELSE CsvWrite(CreateWindows(filtered.value, window_length, step),
                  csv_filename, buffered, buffer_size, files, io)

\* dict_to_csv(data, window_length, csv_filename, step, ecu_name, buffered,
\* buffer_size) on the files `files`; step is None or a number, io says whether
\* the destination can be opened.  raised: an exception leaves the call.
DictToCsv(data, window_length, csv_filename, step, ecu_name, buffered, buffer_size, files, io) ==
    IF data = <<>> THEN Returned(files)
    ELSE IF step # None /\ step.num <= 0 THEN Returned(files)
    ELSE CsvWindows(FilterAndProcessData(data, ecu_name), window_length,
                    csv_filename, step, buffered, buffer_size, files, io)

\* lines 533-577: data written to json_filename, ".json" added when missing
JsonWrite(data, json_filename, buffered, buffer_size, files, io) ==
    IF io # "ok" THEN Returned(files)
    ELSE Returned(WriteFile(files,
                            IF EndsWith(json_filename, ".json") THEN json_filename
                            ELSE json_filename \o ".json",
                            IF buffered THEN JsonBuffered(data, buffer_size)
                            ELSE JsonSingle(data)))

\* lines 524-530: the windows of filtered_data become data
JsonResults(results, json_filename, buffered, buffer_size, files, io) ==
    IF results = <<>> THEN Returned(files)
    ELSE JsonWrite(results, json_filename, buffered, buffer_size, files, io)

\* lines 516-524
JsonWindows(filtered, json_filename, window_length, step, buffered, buffer_size, files, io) ==
    IF filtered.raised THEN Raised(files)
    ELSE IF filtered.value = <<>> THEN Returned(files)
    ELSE IF LoopsForever(filtered.value, window_length.num, step) THEN Hung(files)
    ELSE JsonResults(CreateWindows(filtered.value, window_length.num, step),
                     json_filename, buffered, buffer_size, files, io)

\* dict_to_json(data, json_filename, window_length, step, ecu_name, buffered,
\* buffer_size) on the files `files`; window_length and step are None or a number
DictToJson(data, json_filename, window_length, step, ecu_name, buffered, buffer_size, files, io) ==
    IF data = <<>> THEN Returned(files)
    ELSE IF window_length = None
         THEN JsonWrite(data, json_filename, buffered, buffer_size, files, io)
    ELSE IF step # None /\ step.num <= 0 THEN Returned(files)
    ELSE JsonWindows(FilterAndProcessData(data, ecu_name), json_filename,
                     window_length, step, buffered, buffer_size, files, io)

\* ------------------------------------------------------------ the inputs
\* normalised records: a timestamp and the fields of one source, or (payload
\* {"timestamp": t}) a timestamp alone.  A takes two values, B one.
FieldMaps ==
    {[f \in {} |-> Num(0)]}
        \cup {[f \in {"A"} |-> Num(v)] : v \in {0, 1}}
        \cup {[f \in {"B"} |-> Num(1)]}

NormRecords ==
    {Merge([k \in {"timestamp"} |-> Num(t)], m) : t \in Times, m \in FieldMaps}

SeqsUpTo(S, n) == UNION {[1..k -> S] : k \in 0..n}

\* a raw record as read from the input file
Raw(name, timestamp, data) ==
    [k \in {"name", "timestamp", "data"} |->
        CASE k = "name" -> Str(name)
          [] k = "timestamp" -> Num(timestamp)
          [] k = "data" -> Str(data)]

\* the raw records offered to the output sink: single- and double-quoted
\* payloads, a field name that holds the CSV delimiter, a payload without
\* a numeric value
SinkRecords ==
    { Raw("E1", 1, "{'A': 1}"),
      Raw("E1", 2, "{\"A\": 3}"),
      Raw("E1", 3, "{'A': 2}"),
      Raw("E2", 3, "{'C;D': 2}"),
      Raw("E2", 2, "{'A': 'x'}") }

\* a field that the record does not have
Absent == [tag |-> "absent", hi |-> 0, num |-> 0, den |-> 1, txt |-> ""]

\* the record with the given fields, each a value or Absent
Entry(name, timestamp, data) ==
    [k \in {x \in {"name", "timestamp", "data"} :
                (CASE x = "name" -> name [] x = "timestamp" -> timestamp
                   [] x = "data" -> data) # Absent} |->
        CASE k = "name" -> name [] k = "timestamp" -> timestamp [] k = "data" -> data]

\* the timestamps offered to the normaliser: 1, the bound 9999999999 and its
\* successor, 0, -1, None, a missing one, a string, True and NaN
EntryTimestamps ==
    {Num(1), Big(MaxTimestampHi, MaxTimestampLo), Big(MaxTimestampHi + 1, 0), Num(0),
     Num(-1), None, Absent, Str("5"), Bool(TRUE), NaN}

\* the source tags: two sources in either case, the unknown source, an empty,
\* a missing and a null tag
EntryNames ==
    {Str("E1"), Str("e1"), Str("E2"), Str("Unknown"), Str(""), Absent, None}

\* the payloads: numbers, numbers with a string, a boolean, a string alone, a
\* JSON number, a number that is not a string, an empty and a truncated text
EntryPayloads ==
    {Str("{'A': 1}"), Str("{'A': 1, 'B': 'x'}"), Str("{\"A\": true}"), Str("{'B': 'x'}"),
     Str("5"), Num(5), Str(""), Str("{'A': 1")}

\* the elements of data offered to the normaliser: one field varies at a time
FilterEntries ==
    {Entry(Str("E1"), t, Str("{'A': 1}")) : t \in EntryTimestamps}
        \cup {Entry(n, Num(2), Str("{'A': 1}")) : n \in EntryNames}
        \cup {Entry(Str("E1"), Num(3), d) : d \in EntryPayloads}
        \cup {ListEntry}

\* the source filters offered
FilterChoices == {<<>>, <<"E1">>, <<"e1", "E2">>, <<"unknown">>}

\* the raw records offered to one call of an entry point: two records that
\* are kept, a payload without a numeric value, a timestamp of 0, and a
\* payload that is the JSON number 5
CallRecords ==
    { Raw("E1", 1, "{'A': 1}"),
      Raw("E2", 3, "{'A': 2}"),
      Raw("E1", 2, "{'A': 'x'}"),
      Raw("E1", 0, "{'A': 1}"),
      Raw("E1", 2, "5") }

\* the window lengths and steps offered to an entry point
CallNumbers == {None, Num(-1), Num(0), Num(1)}

\* -------------------------------------------------------------- watch_file
\* The source file is a sequence of pieces: the two halves of the JSON text of
\* a record (a writer may be between them when the file is read), line breaks,
\* and the brackets and commas of a JSON array.  id names the record.
Piece(k, id) == [k |-> k, id |-> id]
NL == Piece("nl", 0)

RecordLine(id) == <<Piece("head", id), Piece("tail", id), NL>>

RECURSIVE ArrayItems(_)
ArrayItems(ids) ==
    IF ids = <<>> THEN <<>>
    ELSE <<Piece("head", ids[1]), Piece("tail", ids[1])>>
            \o (IF Len(ids) > 1 THEN <<Piece("comma", 0)>> ELSE <<>>)
            \o ArrayItems(Tail(ids))

ArrayText(ids) == <<Piece("lb", 0)>> \o ArrayItems(ids) \o <<Piece("rb", 0)>>

\* the records a watched source is made of
WatchRecords ==
    << Raw("E1", 1, "{'A': 1}"),
       Raw("E1", 2, "{'A': 3}"),
       Raw("Unknown", 3, "{'A': 2}"),
       Raw("E2", 4, "{'B': 1}") >>

RECURSIVE SkipNls(_, _)
SkipNls(ps, i) == IF i <= Len(ps) /\ ps[i] = NL THEN SkipNls(ps, i + 1) ELSE i

\* a complete JSON object stands at position i
ObjectAt(ps, i) ==
    /\ i + 1 <= Len(ps)
    /\ ps[i].k = "head" /\ ps[i + 1].k = "tail" /\ ps[i].id = ps[i + 1].id

SourceFail == [ok |-> FALSE, kind |-> "none", items |-> <<>>, next |-> 0]

RECURSIVE LoadsArray(_, _, _)

\* after an element of the array: the closing bracket at c, or a comma
ArrayNext(ps, c, acc) ==
    IF c > Len(ps) THEN SourceFail
    ELSE IF ps[c].k = "rb"
         THEN [ok |-> TRUE, kind |-> "list", items |-> acc, next |-> c + 1]
    ELSE IF ps[c].k = "comma" THEN LoadsArray(ps, c + 1, acc)
    ELSE SourceFail

\* the element of the array expected at j
ArrayElement(ps, j, acc) ==
    IF ~ObjectAt(ps, j) THEN SourceFail
    ELSE ArrayNext(ps, SkipNls(ps, j + 2), Append(acc, WatchRecords[ps[j].id]))

\* the elements of a JSON array from position i on; acc are those read so far
LoadsArray(ps, i, acc) == ArrayElement(ps, SkipNls(ps, i), acc)

\* the array whose first element, or closing bracket, is at e
LoadsList(ps, e) ==
    IF e <= Len(ps) /\ ps[e].k = "rb"
    THEN [ok |-> TRUE, kind |-> "list", items |-> <<>>, next |-> e + 1]
    ELSE LoadsArray(ps, e, <<>>)

\* the value r was read: nothing but whitespace may follow it
SourceEnd(ps, r) == IF r.ok /\ SkipNls(ps, r.next) > Len(ps) THEN r ELSE SourceFail

\* the value that starts at i
LoadsSourceAt(ps, i) ==
    IF i > Len(ps) THEN SourceFail
    ELSE IF ObjectAt(ps, i)
         THEN SourceEnd(ps, [ok |-> TRUE, kind |-> "dict",
                             items |-> <<WatchRecords[ps[i].id]>>, next |-> i + 2])
    ELSE IF ps[i].k = "lb" THEN SourceEnd(ps, LoadsList(ps, SkipNls(ps, i + 1)))
    ELSE SourceFail

\* orjson.loads of a piece of the source: kind "dict" (one object, in items),
\* "list" (an array of objects, in items) or ok = FALSE for a JSONDecodeError
LoadsSource(ps) == LoadsSourceAt(ps, SkipNls(ps, 1))

\* str.split("\n")
RECURSIVE SplitLines(_, _)
SplitLines(ps, line) ==
    IF ps = <<>> THEN <<line>>
    ELSE IF ps[1] = NL THEN <<line>> \o SplitLines(Tail(ps), <<>>)
    ELSE SplitLines(Tail(ps), Append(line, ps[1]))

\* lines 686-691: a line that parses is appended, an array as one element
LineObject(line, obj) ==
    IF Strip(line, {NL}) = <<>> \/ ~obj.ok THEN <<>>
    ELSE IF obj.kind = "dict" THEN obj.items
    ELSE <<ListEntry>>

\* line 685: for line in lines
RECURSIVE ParseLines(_)
ParseLines(lines) ==
    IF lines = <<>> THEN <<>>
    ELSE LineObject(lines[1], LoadsSource(lines[1])) \o ParseLines(Tail(lines))

\* lines 675-691: the text parsed as a whole, or line by line
ParseWhole(new_data, whole) ==
    IF whole.ok THEN (IF whole.kind = "list" THEN whole.items ELSE <<>>)
    ELSE ParseLines(SplitLines(Strip(new_data, {NL}), <<>>))

\* lines 672-693: what the newly read text adds to accumulated_data
ParseNewData(new_data) ==
    IF Strip(new_data, {NL}) = <<>> THEN <<>>
    ELSE ParseWhole(new_data, LoadsSource(new_data))

\* the clock of the watch loop, the window length and the step count half
\* seconds; the format of line 714 keeps whole seconds
TicksPerSecond == 2

\* datetime.now().strftime("%Y%m%d_%H%M%S") at the clock value t
TimeSuffix(t) == ToString(t \div TicksPerSecond)

\* the outcome of a pass from that of its last write
PassOutcome(out, results) ==
    [raised |-> out.raised, files |-> out.files,
     windows |-> IF out.raised THEN <<>> ELSE results]

\* a pass that returned, and one an exception left
PassDone(files, windows) == [raised |-> FALSE, files |-> files, windows |-> windows]
PassRaised(files)        == [raised |-> TRUE,  files |-> files, windows |-> <<>>]

\* lines 721-724: the JSON output, after the CSV output did csv
PassJson(csv, results, cfg, timestamp) ==
    IF csv.raised THEN PassRaised(csv.files)
    ELSE IF ~Truthy(cfg.output_json) THEN PassDone(csv.files, results)
    ELSE PassOutcome(DictToJson(results,
                                cfg.output_json.txt \o "_" \o timestamp \o ".json",
                                Num(cfg.window_length), Num(cfg.step),
                                cfg.ecu_filter, cfg.buffered, cfg.buffer_size,
                                csv.files, "ok"),
                     results)

\* lines 716-719: the CSV output
PassCsv(filtered_data, cfg, timestamp, out_files) ==
    IF ~Truthy(cfg.output_csv) THEN Returned(out_files)
    ELSE DictToCsv(filtered_data, cfg.window_length,
                   cfg.output_csv.txt \o "_" \o timestamp \o ".csv",
                   Num(cfg.step), cfg.ecu_filter, cfg.buffered, cfg.buffer_size,
                   out_files, "ok")

\* lines 709-728: the windows of the pass are saved
PassResults(filtered_data, results, cfg, current_time, out_files) ==
    IF results = <<>> THEN PassDone(out_files, <<>>)
    ELSE PassJson(PassCsv(filtered_data, cfg, TimeSuffix(current_time), out_files),
                  results, cfg, TimeSuffix(current_time))

\* lines 705-730
PassFiltered(filtered, cfg, current_time, out_files) ==
    IF filtered.raised THEN PassRaised(out_files)
    ELSE IF filtered.value = <<>> THEN PassDone(out_files, <<>>)
    ELSE PassResults(filtered.value,
                     CreateWindows(filtered.value, cfg.window_length, Num(cfg.step)),
                     cfg, current_time, out_files)

\* lines 700-730: the windowing pass over accumulated_data at current_time.
\* cfg: window_length, step, output_csv, output_json (None or Str), ecu_filter,
\* buffered, buffer_size.  raised: an exception leaves the loop.  windows: the
\* windows the pass computed.
WindowingPass(accumulated_data, cfg, current_time, out_files) ==
    PassFiltered(FilterAndProcessData(accumulated_data, cfg.ecu_filter),
                 cfg, current_time, out_files)

\* ------------------------------------------------------------------ state
VARIABLES
    cw_pc,        \* create_windows: "idle", "call", "loop" (at the test of the
                  \*   while), "body", "done"
    cw_data,      \* its argument data
    cw_length,    \* its argument window_length
    cw_step,      \* its argument step (after the None default)
    cw_df,        \* the sorted frame
    cw_st,        \* start_time, window_index, results
    sk_data,      \* output sink: the argument data of the calls
    sk_length,    \* window_length: None or a number
    sk_step,      \* step: None or a number
    sk_size,      \* buffer_size
    sk_calls,     \* the calls made so far
    fp_pc,        \* filter_and_process_data: "idle", "read", "loop", "returned",
                  \*   "raised", "failed" (read_file returned None)
    fp_raw,       \* the records of the input, as parsed from the file
    fp_data,      \* its argument data
    fp_filter,    \* its argument ecu_name
    fp_i,         \* the position of `for entry in data`
    fp_out,       \* filtered_data
    fp_mode,      \* who called: "batch" (main, after read_file), "watch", or
                  \*   "api" (another caller of the function)
    fp_kept,      \* history: the positions of data whose record was appended
    ep_data,      \* a call of dict_to_csv or dict_to_json: its argument data
    ep_length,    \* window_length: None or a number
    ep_step,      \* step: None or a number
    ep_filter,    \* ecu_name
    ep_io,        \* whether the destination can be opened: "ok" or "fail"
    ep_out,       \* the calls made: call -> "returned", "raised", "hung"
    files,        \* the output files: name -> text
    src_exists,   \* watch mode: the source file exists
    src_text,     \* its content
    src_mtime,    \* its modification time
    wr_next,      \* the writer of the source: the next record it appends
    wr_half,      \* the writer has written the first half of that record
    now,          \* the wall clock
    w_pc,         \* watch_file: "idle", "watching", "stopped" (an exception
                  \*   ended the loop), "cancelled" (a signal ended the process
                  \*   during the sleep), "interrupted" (a signal ended it
                  \*   inside a windowing pass)
    w_cfg,        \* its arguments
    last_position,
    last_modified_time,
    last_processed_time,
    accumulated_data,
    ingested,     \* history: every element ever added to accumulated_data
    passes        \* history: the windowing passes, their time and windows

cw_vars == <<cw_pc, cw_data, cw_length, cw_step, cw_df, cw_st>>
sk_vars == <<sk_data, sk_length, sk_step, sk_size, sk_calls>>
src_vars == <<src_exists, src_text, src_mtime, wr_next, wr_half>>
w_vars == <<now, w_pc, w_cfg, last_position, last_modified_time,
            last_processed_time, accumulated_data, ingested, passes>>
fp_vars == <<fp_pc, fp_raw, fp_data, fp_filter, fp_i, fp_out, fp_mode, fp_kept>>
ep_vars == <<ep_data, ep_length, ep_step, ep_filter, ep_io, ep_out>>
vars == <<cw_vars, sk_vars, fp_vars, ep_vars, files, src_vars, w_vars>>

\* the parts of the state a specification does not use
CwIdle ==
    /\ cw_pc = "idle"
    /\ cw_data = <<>>
    /\ cw_length = 1
    /\ cw_step = 1
    /\ cw_df = <<>>
    /\ cw_st = [start_time |-> 0, window_index |-> 0, results |-> <<>>]

SkIdle ==
    /\ sk_data = <<>>
    /\ sk_length = None
    /\ sk_step = None
    /\ sk_size = 1
    /\ sk_calls = {}

NoCalls == [c \in {} |-> "returned"]

FpIdle ==
    /\ fp_pc = "idle"
    /\ fp_raw = <<>>
    /\ fp_data = <<>>
    /\ fp_filter = <<>>
    /\ fp_i = 1
    /\ fp_out = <<>>
    /\ fp_mode = "none"
    /\ fp_kept = <<>>

EpIdle ==
    /\ ep_data = <<>>
    /\ ep_length = None
    /\ ep_step = None
    /\ ep_filter = <<>>
    /\ ep_io = "ok"
    /\ ep_out = NoCalls

NoConfig ==
    [window_length |-> 1, step |-> 1, output_csv |-> None, output_json |-> None,
     ecu_filter |-> <<>>, buffered |-> FALSE, buffer_size |-> 1]

WIdle ==
    /\ src_exists = FALSE
    /\ src_text = <<>>
    /\ src_mtime = 0
    /\ wr_next = 1
    /\ wr_half = FALSE
    /\ now = 0
    /\ w_pc = "idle"
    /\ w_cfg = NoConfig
    /\ last_position = 0
    /\ last_modified_time = 0
    /\ last_processed_time = 0
    /\ accumulated_data = <<>>
    /\ ingested = <<>>
    /\ passes = <<>>

\* ------------------------------------------- create_windows, step by step
CwInit ==
    /\ cw_pc = "call"
    /\ cw_data \in SeqsUpTo(NormRecords, MaxRecs)
    /\ cw_length \in Lengths
    /\ cw_step \in Lengths
    /\ cw_df = <<>>
    /\ cw_st = [start_time |-> 0, window_index |-> 0, results |-> <<>>]
    /\ SkIdle
    /\ FpIdle
    /\ EpIdle
    /\ WIdle
    /\ files = NoFiles

\* lines 332-365: empty input returns at once, otherwise sort and set up
CwCall ==
    /\ cw_pc = "call"
    /\ IF cw_data = <<>>
       THEN /\ cw_pc' = "done"
            /\ UNCHANGED <<cw_df, cw_st>>
       ELSE /\ cw_df' = SortValues(cw_data)
            /\ cw_st' = [start_time |-> MinTime(cw_df'), window_index |-> 0,
                         results |-> <<>>]
            /\ cw_pc' = "loop"
    /\ UNCHANGED <<cw_data, cw_length, cw_step, sk_vars, fp_vars, ep_vars, files, src_vars, w_vars>>

\* line 368: the loop condition holds and the body is entered
CwTest ==
    /\ cw_pc = "loop"
    /\ WhileTest(cw_st.start_time, MaxTime(cw_df))
    /\ cw_pc' = "body"
    /\ UNCHANGED <<cw_data, cw_length, cw_step, cw_df, cw_st, sk_vars, fp_vars, ep_vars, files, src_vars, w_vars>>

\* lines 369-407: the body of the while loop
CwIter ==
    /\ cw_pc = "body"
    /\ cw_st' = WindowIter(cw_df, cw_length, cw_step, cw_st)
    /\ cw_pc' = "loop"
    /\ UNCHANGED <<cw_data, cw_length, cw_step, cw_df, sk_vars, fp_vars, ep_vars, files, src_vars, w_vars>>

\* line 410: the loop condition fails and the results are returned
CwReturn ==
    /\ cw_pc = "loop"
    /\ ~WhileTest(cw_st.start_time, MaxTime(cw_df))
    /\ cw_pc' = "done"
    /\ UNCHANGED <<cw_data, cw_length, cw_step, cw_df, cw_st, sk_vars, fp_vars, ep_vars, files, src_vars, w_vars>>

CwNext == CwCall \/ CwTest \/ CwIter \/ CwReturn

SpecWin == CwInit /\ [][CwNext]_vars

\* records that share timestamps, with values whose float sum depends on the
\* order of the addends, and a second field
TieRecords ==
    {[k \in {"timestamp", "A"} |-> Num(IF k = "A" THEN v ELSE t)] :
        t \in {1, 2}, v \in {2, 3, 6}}
        \cup {[k \in {"timestamp", "B"} |-> Num(IF k = "B" THEN 1 ELSE 3)]}

CwTiesInit ==
    /\ cw_pc = "call"
    /\ cw_data \in SeqsUpTo(TieRecords, MaxRecs)
    /\ cw_length \in Lengths
    /\ cw_step \in Lengths
    /\ cw_df = <<>>
    /\ cw_st = [start_time |-> 0, window_index |-> 0, results |-> <<>>]
    /\ SkIdle
    /\ FpIdle
    /\ EpIdle
    /\ WIdle
    /\ files = NoFiles

SpecWinTies == CwTiesInit /\ [][CwNext]_vars

\* timestamps up to the size where the floats are further apart than a step
LiveTimes == {1, 2, 2 ^ (Mantissa + 1)}

LiveRecords == {[k \in {"timestamp", "A"} |-> Num(IF k = "A" THEN 1 ELSE t)] : t \in LiveTimes}

CwLiveInit ==
    /\ cw_pc = "call"
    /\ cw_data \in SeqsUpTo(LiveRecords, MaxRecs)
    /\ cw_length \in Lengths
    /\ cw_step \in Lengths
    /\ cw_df = <<>>
    /\ cw_st = [start_time |-> 0, window_index |-> 0, results |-> <<>>]
    /\ SkIdle
    /\ FpIdle
    /\ EpIdle
    /\ WIdle
    /\ files = NoFiles

\* the interpreter runs the one thread of create_windows for as long as it
\* has a next statement
SpecWinLive == CwLiveInit /\ [][CwNext]_vars /\ WF_vars(CwNext)

\* ------------------------------------------ dict_to_csv and dict_to_json
\* one input, written by each writer in each mode to a file of its own
SkInit ==
    /\ CwIdle
    /\ sk_data \in SeqsUpTo(SinkRecords, MaxItems)
    /\ sk_length \in {None} \cup {Num(n) : n \in Lengths}
    /\ sk_step \in {None, Num(1)}
    /\ sk_size \in 1..MaxChunk
    /\ sk_calls = {}
    /\ FpIdle
    /\ EpIdle
    /\ WIdle
    /\ files = NoFiles

SkCall(call) ==
    /\ call \notin sk_calls
    /\ sk_calls' = sk_calls \cup {call}
    /\ UNCHANGED <<cw_vars, sk_data, sk_length, sk_step, sk_size, fp_vars, ep_vars,
                   src_vars, w_vars>>

\* dict_to_json(data, "single", ..., buffered=False)
JsonSingleShot ==
    /\ SkCall("json_single")
    /\ files' = DictToJson(sk_data, "single", sk_length, sk_step, <<>>,
                           FALSE, sk_size, files, "ok").files

\* dict_to_json(data, "buffered.json", ..., buffered=True, buffer_size)
JsonBufferedMode ==
    /\ SkCall("json_buffered")
    /\ files' = DictToJson(sk_data, "buffered.json", sk_length, sk_step, <<>>,
                           TRUE, sk_size, files, "ok").files

\* dict_to_csv(data, window_length, "single.csv", ..., buffered=False)
CsvSingleShot ==
    /\ sk_length # None
    /\ SkCall("csv_single")
    /\ files' = DictToCsv(sk_data, sk_length.num, "single.csv", sk_step, <<>>,
                          FALSE, sk_size, files, "ok").files

\* dict_to_csv(data, window_length, "buffered.csv", ..., buffered=True, buffer_size)
CsvBufferedMode ==
    /\ sk_length # None
    /\ SkCall("csv_buffered")
    /\ files' = DictToCsv(sk_data, sk_length.num, "buffered.csv", sk_step, <<>>,
                          TRUE, sk_size, files, "ok").files

SkNext == JsonSingleShot \/ JsonBufferedMode \/ CsvSingleShot \/ CsvBufferedMode

SpecSink == SkInit /\ [][SkNext]_vars

\* ------------------------------------- filter_and_process_data, step by step
FpInit ==
    /\ CwIdle
    /\ SkIdle
    /\ fp_pc = "read"
    /\ fp_raw \in SeqsUpTo(FilterEntries, MaxEntries)
    /\ fp_data = <<>>
    /\ fp_filter \in FilterChoices
    /\ fp_i = 1
    /\ fp_out = <<>>
    /\ fp_mode = "none"
    /\ fp_kept = <<>>
    /\ EpIdle
    /\ WIdle
    /\ files = NoFiles

\* orjson.loads reads no NaN: the records that a file can hold
FromJson(data) ==
    \A i \in 1..Len(data) : Get(data[i], "timestamp") # NaN

\* main, lines 790 and 817-820: read_file cleans the parsed data, and the
\* entry points hand the cleaned data to filter_and_process_data; read_file
\* returns None when clean_data raises, and main returns
ReadFile ==
    /\ fp_pc = "read"
    /\ FromJson(fp_raw)
    /\ fp_mode' = "batch"
    /\ IF CleanData(fp_raw).raised
       THEN fp_pc' = "failed" /\ UNCHANGED fp_data
       ELSE fp_pc' = "loop" /\ fp_data' = CleanData(fp_raw).value
    /\ UNCHANGED <<cw_vars, sk_vars, fp_raw, fp_filter, fp_i, fp_out, fp_kept, ep_vars,
                   files, src_vars, w_vars>>

\* watch_file, line 703: the accumulated records go to filter_and_process_data
\* as they were parsed
WatchCall ==
    /\ fp_pc = "read"
    /\ FromJson(fp_raw)
    /\ fp_mode' = "watch"
    /\ fp_pc' = "loop"
    /\ fp_data' = fp_raw
    /\ UNCHANGED <<cw_vars, sk_vars, fp_raw, fp_filter, fp_i, fp_out, fp_kept, ep_vars,
                   files, src_vars, w_vars>>

\* line 247: a caller that hands its own Python values to the function
ApiCall ==
    /\ fp_pc = "read"
    /\ fp_mode' = "api"
    /\ fp_pc' = "loop"
    /\ fp_data' = fp_raw
    /\ UNCHANGED <<cw_vars, sk_vars, fp_raw, fp_filter, fp_i, fp_out, fp_kept, ep_vars,
                   files, src_vars, w_vars>>

\* the entry at fp_i did r
FpStep(r) ==
    /\ fp_pc' = IF r.act = "raise" THEN "raised" ELSE "loop"
    /\ fp_i' = IF r.act = "raise" THEN fp_i ELSE fp_i + 1
    /\ fp_out' = IF r.act = "keep" THEN Append(fp_out, r.rec) ELSE fp_out
    /\ fp_kept' = IF r.act = "keep" THEN Append(fp_kept, fp_i) ELSE fp_kept

\* lines 266-311: one pass of `for entry in data`
FpEntry ==
    /\ fp_pc = "loop"
    /\ fp_i <= Len(fp_data)
    /\ FpStep(ProcessEntry(fp_data[fp_i], EcuFilters(fp_filter)))
    /\ UNCHANGED <<cw_vars, sk_vars, fp_raw, fp_data, fp_filter, fp_mode, ep_vars,
                   files, src_vars, w_vars>>

\* line 314: return filtered_data
FpReturn ==
    /\ fp_pc = "loop"
    /\ fp_i > Len(fp_data)
    /\ fp_pc' = "returned"
    /\ UNCHANGED <<cw_vars, sk_vars, fp_raw, fp_data, fp_filter, fp_i, fp_out, fp_mode,
                   fp_kept, ep_vars, files, src_vars, w_vars>>

FpNext == ReadFile \/ WatchCall \/ ApiCall \/ FpEntry \/ FpReturn

SpecFilter == FpInit /\ [][FpNext]_vars

\* ------------------------------------------- the entry points, one call each
\* dict_to_csv and dict_to_json called once each on the same arguments, with
\* window lengths and steps of either sign and a destination that may fail
EpInit ==
    /\ CwIdle
    /\ SkIdle
    /\ FpIdle
    /\ ep_data \in SeqsUpTo(CallRecords, MaxCallRecs)
    /\ ep_length \in CallNumbers
    /\ ep_step \in CallNumbers
    /\ ep_filter \in {<<>>, <<"E2">>}
    /\ ep_io \in {"ok", "fail"}
    /\ ep_out = NoCalls
    /\ WIdle
    /\ files = NoFiles

\* how the call ended
Outcome(r) == IF r.raised THEN "raised" ELSE IF r.hung THEN "hung" ELSE "returned"

\* the call ended with r
EpCall(call, r) ==
    /\ ep_out' = [c \in DOMAIN ep_out \cup {call} |->
                    IF c = call THEN Outcome(r) ELSE ep_out[c]]
    /\ files' = r.files
    /\ UNCHANGED <<cw_vars, sk_vars, fp_vars, ep_data, ep_length, ep_step, ep_filter,
                   ep_io, src_vars, w_vars>>

\* dict_to_csv(data, window_length, "out.csv", step, ecu_name)
CallDictToCsv ==
    /\ "csv" \notin DOMAIN ep_out
    /\ ep_length # None
    /\ EpCall("csv", DictToCsv(ep_data, ep_length.num, "out.csv", ep_step, ep_filter,
                               FALSE, 1, files, ep_io))

\* dict_to_json(data, "out.json", window_length, step, ecu_name)
CallDictToJson ==
    /\ "json" \notin DOMAIN ep_out
    /\ EpCall("json", DictToJson(ep_data, "out.json", ep_length, ep_step, ep_filter,
                                 FALSE, 1, files, ep_io))

EpNext == CallDictToCsv \/ CallDictToJson

SpecCalls == EpInit /\ [][EpNext]_vars

\* ---------------------------------------------- watch_file and its source
\* line 614: watch_interval, in the units of the clock: half a second
WatchInterval == 1

WatchConfigs ==
    {[window_length |-> l, step |-> st, output_csv |-> oc, output_json |-> oj,
      ecu_filter |-> ef, buffered |-> b, buffer_size |-> 1] :
        l \in Lengths, st \in Lengths, oc \in {None, Str("out")},
        oj \in {None, Str("out")}, ef \in {<<>>, <<"E1">>}, b \in BOOLEAN}

\* lines 629-637: a call with an output configured enters the loop
WatchInit ==
    /\ CwIdle
    /\ SkIdle
    /\ FpIdle
    /\ EpIdle
    /\ files = NoFiles
    /\ src_exists = FALSE
    /\ src_text = <<>>
    /\ src_mtime = 0
    /\ wr_next = 1
    /\ wr_half = FALSE
    /\ now = StartTime
    /\ w_pc = "watching"
    /\ w_cfg \in {c \in WatchConfigs :
                    /\ c.step <= c.window_length
                    /\ Truthy(c.output_csv) \/ Truthy(c.output_json)}
    /\ last_position = 0
    /\ last_modified_time = 0
    /\ last_processed_time = 0
    /\ accumulated_data = <<>>
    /\ ingested = <<>>
    /\ passes = <<>>

\* the writer of the source appends text; the file is created by its first write
Write(text) ==
    /\ src_exists' = TRUE
    /\ src_text' = src_text \o text
    /\ src_mtime' = now
    /\ UNCHANGED <<cw_vars, sk_vars, fp_vars, ep_vars, files, w_vars>>

\* one record, as a line of its own, in one write
AppendLine ==
    /\ ~wr_half /\ wr_next <= MaxAppends
    /\ Write(RecordLine(wr_next))
    /\ wr_next' = wr_next + 1
    /\ UNCHANGED wr_half

\* the first part of a record: the write of the line is in progress
AppendHead ==
    /\ ~wr_half /\ wr_next <= MaxAppends
    /\ Write(<<Piece("head", wr_next)>>)
    /\ wr_half' = TRUE
    /\ UNCHANGED wr_next

\* the rest of the line
AppendTail ==
    /\ wr_half
    /\ Write(<<Piece("tail", wr_next), NL>>)
    /\ wr_half' = FALSE
    /\ wr_next' = wr_next + 1

\* the source starts as a JSON array of the first two records
WriteArray ==
    /\ src_text = <<>> /\ ~wr_half /\ wr_next = 1 /\ MaxAppends >= 2
    /\ Write(ArrayText(<<1, 2>>) \o <<NL>>)
    /\ wr_next' = 3
    /\ UNCHANGED wr_half

\* line 737: time.sleep(watch_interval)
Sleep == now' = now + WatchInterval

\* lines 700-734: the pass over the pending records did `pass`.  An exception
\* leaves the loop (line 741): nothing is cleared.
Flush(pending, pass) ==
    IF pass.raised
    THEN /\ w_pc' = "stopped"
         /\ accumulated_data' = pending
         /\ files' = pass.files
         /\ UNCHANGED <<now, last_processed_time, passes>>
    ELSE /\ accumulated_data' = <<>>
         /\ last_processed_time' = now
         /\ passes' = Append(passes, [time |-> now, windows |-> pass.windows])
         /\ files' = pass.files
         /\ Sleep
         /\ UNCHANGED w_pc

\* lines 698-734: pending is accumulated_data after the read
Process(pending) ==
    IF pending # <<>> /\ (now - last_processed_time) >= w_cfg.window_length
    THEN Flush(pending, WindowingPass(pending, w_cfg, now, files))
    ELSE /\ accumulated_data' = pending
         /\ Sleep
         /\ UNCHANGED <<w_pc, last_processed_time, passes, files>>

\* lines 667-669: f.tell() after seek(last_position) and read(): the end of
\* the file, or last_position when the file ends before it
Tell == IF last_position > Len(src_text) THEN last_position ELSE Len(src_text)

\* lines 666-695: the text after last_position was read and parsed
ReadNewData(parsed) ==
    /\ last_position' = Tell
    /\ last_modified_time' = src_mtime
    /\ ingested' = ingested \o parsed
    /\ Process(accumulated_data \o parsed)

\* lines 653-656 with a cursor that starts over when the source is missing
WaitForSourceMut ==
    /\ Sleep
    /\ last_position' = 0
    /\ UNCHANGED <<w_pc, last_modified_time, last_processed_time,
                   accumulated_data, ingested, passes, files>>

\* lines 653-656: the source does not exist: a warning, the sleep, continue
WaitForSource ==
    /\ Sleep
    /\ UNCHANGED <<w_pc, last_position, last_modified_time, last_processed_time,
                   accumulated_data, ingested, passes, files>>

\* lines 651-737: one iteration of the loop, the sleep included
WatchTick ==
    /\ w_pc = "watching"
    /\ now < StartTime + MaxTicks
    /\ IF ~src_exists THEN WaitForSource
       ELSE IF src_mtime > last_modified_time
       THEN ReadNewData(ParseNewData(SubSeq(src_text, last_position + 1,
                                            Len(src_text))))
       ELSE /\ Sleep
            /\ UNCHANGED <<w_pc, last_position, last_modified_time,
                           last_processed_time, accumulated_data, ingested,
                           passes, files>>
    /\ UNCHANGED <<cw_vars, sk_vars, fp_vars, ep_vars, src_vars, w_cfg>>

\* the source is removed while the loop sleeps (line 737)
RemoveSource ==
    /\ w_pc = "watching"
    /\ src_exists
    /\ ~wr_half
    /\ src_exists' = FALSE
    /\ src_text' = <<>>
    /\ UNCHANGED <<cw_vars, sk_vars, fp_vars, ep_vars, files, src_mtime, wr_next, wr_half,
                   w_vars>>

\* lines 653-666: the source is there at os.path.exists and is removed before
\* os.path.getmtime or open; FileNotFoundError reaches the handler of line 741
SourceRemovedInTick ==
    /\ w_pc = "watching"
    /\ src_exists
    /\ src_exists' = FALSE
    /\ src_text' = <<>>
    /\ w_pc' = "stopped"
    /\ UNCHANGED <<cw_vars, sk_vars, fp_vars, ep_vars, files, src_mtime, wr_next, wr_half,
                   now, w_cfg, last_position, last_modified_time, last_processed_time,
                   accumulated_data, ingested, passes>>

\* lines 640-645: SIGINT or SIGTERM runs signal_handler, and sys.exit(0) ends
\* the process from inside the loop
Cancel ==
    /\ w_pc = "watching"
    /\ w_pc' = "cancelled"
    /\ UNCHANGED <<cw_vars, sk_vars, fp_vars, ep_vars, files, src_vars, now, w_cfg,
                   last_position, last_modified_time, last_processed_time,
                   accumulated_data, ingested, passes>>

\* lines 700-719 and 642: the pass over pending has written its CSV file
\* (line 719) when the signal arrives, and sys.exit raises SystemExit there
InterruptedPass(pending, filtered) ==
    /\ pending # <<>>
    /\ (now - last_processed_time) >= w_cfg.window_length
    /\ ~filtered.raised
    /\ filtered.value # <<>>
    /\ CreateWindows(filtered.value, w_cfg.window_length, Num(w_cfg.step)) # <<>>
    /\ files' = PassCsv(filtered.value, w_cfg, TimeSuffix(now), files).files
    /\ accumulated_data' = pending

\* lines 666-695, then the pass that is interrupted
InterruptedAfterRead(parsed) ==
    /\ last_position' = Tell
    /\ last_modified_time' = src_mtime
    /\ ingested' = ingested \o parsed
    /\ InterruptedPass(accumulated_data \o parsed,
                       FilterAndProcessData(accumulated_data \o parsed, w_cfg.ecu_filter))

\* lines 640-645: the signal arrives inside an iteration; signal_handler runs
\* in the main thread between two of its instructions, and the SystemExit it
\* raises is caught by none of the handlers of lines 739-742
CancelInPass ==
    /\ w_pc = "watching"
    /\ src_exists
    /\ src_mtime > last_modified_time
    /\ Truthy(w_cfg.output_csv)
    /\ InterruptedAfterRead(ParseNewData(SubSeq(src_text, last_position + 1,
                                                Len(src_text))))
    /\ w_pc' = "interrupted"
    /\ UNCHANGED <<cw_vars, sk_vars, fp_vars, ep_vars, src_vars, now, w_cfg,
                   last_processed_time, passes>>

WatchNext ==
    \/ AppendLine \/ AppendHead \/ AppendTail \/ WriteArray
    \/ WatchTick \/ RemoveSource \/ SourceRemovedInTick \/ Cancel \/ CancelInPass

SpecWatch == WatchInit /\ [][WatchNext]_vars

\* ======================================================= create_windows
\* what the properties below say about the input, stated on cw_data itself
InWindow(j, w) ==
    /\ cw_data[j]["timestamp"].num >= w["window_start"].num
    /\ cw_data[j]["timestamp"].num <  w["window_start"].num + cw_length

Sel(w, f) == {j \in 1..Len(cw_data) : InWindow(j, w) /\ f \in DOMAIN cw_data[j]}

RECURSIVE SumVals(_, _)
SumVals(S, f) ==
    IF S = {} THEN 0
    ELSE LET j == CHOOSE x \in S : TRUE
         IN  cw_data[j][f].num + SumVals(S \ {j}, f)

\* sum over S of (n*x - s)^2, which is n^2 times the sum of squared deviations
RECURSIVE SumSqDev(_, _, _, _)
SumSqDev(S, f, n, s) ==
    IF S = {} THEN 0
    ELSE LET j == CHOOSE x \in S : TRUE
             d == n * cw_data[j][f].num - s
         IN  d * d + SumSqDev(S \ {j}, f, n, s)

Timestamps == {cw_data[j]["timestamp"].num : j \in 1..Len(cw_data)}
TMin == CHOOSE t \in Timestamps : \A u \in Timestamps : t <= u
TMax == CHOOSE t \in Timestamps : \A u \in Timestamps : t >= u

Results == cw_st.results

\* C5: every emitted window has window_end = window_start + window_length
C5_EndIsStartPlusLength ==
    \A i \in 1..Len(Results) :
        Results[i]["window_end"].num = Results[i]["window_start"].num + cw_length

C5_Witness ==
    /\ cw_pc = "done"
    /\ Len(Results) >= 2
    /\ cw_step # cw_length

\* C6: the loop visits tmin, tmin+step, tmin+2*step, ... while start <= tmax;
\* every emitted window starts at a visited value, and when the slot after an
\* emitted window holds a record the next emitted window starts exactly step later
C6_StartsOnStepGrid ==
    /\ cw_pc \in {"loop", "body"} =>
          \E k \in 0..(TMax - TMin + 1) : cw_st.start_time = TMin + k * cw_step
    /\ \A i \in 1..Len(Results) :
          /\ \E k \in 0..(TMax - TMin) : Results[i]["window_start"].num = TMin + k * cw_step
          /\ Results[i]["window_start"].num <= TMax
    /\ \A i \in 1..(Len(Results) - 1) :
          LET next == Results[i]["window_start"].num + cw_step
          IN  (\E j \in 1..Len(cw_data) :
                  /\ cw_data[j]["timestamp"].num >= next
                  /\ cw_data[j]["timestamp"].num < next + cw_length)
              => Results[i + 1]["window_start"].num = next

C6_Witness ==
    /\ cw_pc = "done"
    /\ Len(Results) >= 2
    /\ cw_step < cw_length
    /\ Results[2]["window_start"].num = Results[1]["window_start"].num + cw_step

\* C7: a window is emitted only for a slot that holds a record, and the emitted
\* windows carry the indices 0, 1, ..., n-1 in order whatever empty slots lie
\* between them; with a numeric column the running index counts the emitted windows
C7_IndicesHaveNoGaps ==
    /\ \A i \in 1..Len(Results) :
          /\ Results[i]["window_index"] = Num(i - 1)
          /\ \E j \in 1..Len(cw_data) : InWindow(j, Results[i])
    /\ (\E j \in 1..Len(cw_data) : DOMAIN cw_data[j] # {"timestamp"})
          => cw_st.window_index = Len(Results)

C7_Witness ==
    /\ cw_pc = "done"
    /\ Len(Results) = 2
    /\ Results[2]["window_start"].num >= Results[1]["window_start"].num + 2 * cw_step
    /\ Results[2]["window_index"] = Num(1)

\* C8: min, max, mean and the n-1 std of a field in a window are those of the
\* values of the records with start <= t < start + length
C8_StatsOfHalfOpenInterval ==
    \A i \in 1..Len(Results) : \A f \in FieldNames :
        LET w == Results[i]
            S == Sel(w, f)
            n == Cardinality(S)
            s == SumVals(S, f)
            vmin  == Get(w, StatKey("min", f))
            vmax  == Get(w, StatKey("max", f))
            vmean == Get(w, StatKey("mean", f))
            vstd  == Get(w, StatKey("std", f))
        IN  n >= 1 =>
              /\ vmin.tag = "num" /\ vmin.den = 1
              /\ \E j \in S : cw_data[j][f].num = vmin.num
              /\ \A j \in S : cw_data[j][f].num >= vmin.num
              /\ vmax.tag = "num" /\ vmax.den = 1
              /\ \E j \in S : cw_data[j][f].num = vmax.num
              /\ \A j \in S : cw_data[j][f].num <= vmax.num
              /\ vmean.tag = "num" /\ vmean.num * n = s * vmean.den
              /\ n >= 2 =>
                    /\ vstd.tag = "sqrt"
                    /\ vstd.num * (n * n * (n - 1)) = SumSqDev(S, f, n, s) * vstd.den

C8_Witness ==
    /\ cw_pc = "done"
    /\ \E i \in 1..Len(Results) : \E f \in FieldNames :
          LET w == Results[i]
          IN  /\ Cardinality(Sel(w, f)) = 2
              /\ Get(w, StatKey("std", f)).tag = "sqrt"
              /\ Get(w, StatKey("std", f)).num > 0
              /\ \E j \in Sel(w, f) :
                    cw_data[j]["timestamp"].num = w["window_start"].num
    /\ \E i \in 1..Len(Results) : \E j \in 1..Len(cw_data) :
          cw_data[j]["timestamp"].num = Results[i]["window_end"].num

\* C9: a field with exactly one sample in a window has min = max = mean = that
\* sample and an undefined (NaN) std
C9_SingleSample ==
    \A i \in 1..Len(Results) : \A f \in FieldNames :
        LET w == Results[i]
            S == Sel(w, f)
        IN  Cardinality(S) = 1 =>
              LET v == cw_data[CHOOSE j \in S : TRUE][f]
              IN  /\ Get(w, StatKey("min", f))  = v
                  /\ Get(w, StatKey("max", f))  = v
                  /\ Get(w, StatKey("mean", f)) = v
                  /\ Get(w, StatKey("std", f))  = NaN

C9_Witness ==
    /\ cw_pc = "done"
    /\ \E i \in 1..Len(Results) : \E f \in FieldNames :
          /\ Cardinality(Sel(Results[i], f)) = 1
          /\ Get(Results[i], StatKey("std", f)) = NaN
          /\ Get(Results[i], StatKey("mean", f)) = Num(1)

\* C10: a window has statistics for a field exactly when a selected record has
\* the field; a selected record without the field is not counted in its mean
C10_FieldsAreUnionOfSelected ==
    \A i \in 1..Len(Results) : \A f \in FieldNames :
        LET w == Results[i]
            S == Sel(w, f)
            tags(names) == {Get(w, StatKey(stat, f)).tag : stat \in names}
        IN  /\ S # {} =>
                 /\ tags({"min", "max", "mean"}) = {"num"}
                 /\ Get(w, StatKey("mean", f)).num * Cardinality(S)
                       = SumVals(S, f) * Get(w, StatKey("mean", f)).den
            /\ S = {} => tags(StatNames) \subseteq {"nan", "none"}

C10_Witness ==
    /\ cw_pc = "done"
    /\ \E i \in 1..Len(Results) :
          /\ Sel(Results[i], "B") = {}
          /\ "B" \in Columns(cw_data)
          /\ Cardinality(Sel(Results[i], "A")) = 1
          /\ \E j \in 1..Len(cw_data) :
                InWindow(j, Results[i]) /\ "A" \notin DOMAIN cw_data[j]

\* ========================================================== output sink
Written(name) == name \in DOMAIN files

\* C1: buffered dict_to_json writes the same bytes as single-shot dict_to_json
C1_JsonBufferedIsSingleShot ==
    (Written("single.json") /\ Written("buffered.json"))
        => files["buffered.json"] = files["single.json"]

\* C2: buffered dict_to_csv writes the same text as single-shot dict_to_csv:
\* one header row, then a row per window in order
C2_CsvBufferedIsSingleShot ==
    (Written("single.csv") /\ Written("buffered.csv"))
        => files["buffered.csv"] = files["single.csv"]

\* =========================================================== watch_file
\* the records whose whole line is in the source
AppendedIds ==
    {id \in 1..Len(WatchRecords) :
        \E i \in 1..Len(src_text) : src_text[i] = Piece("tail", id)}

\* how many times the loop has added the record to accumulated_data
TimesIngested(id) ==
    Cardinality({i \in 1..Len(ingested) : ingested[i] = WatchRecords[id]})

\* the loop has read the source to its end
CaughtUp == w_pc = "watching" /\ ~wr_half /\ last_position = Len(src_text)

\* C3: every record appended to the source is added to accumulated_data
\* exactly once: never twice, and once the loop has read the source to its
\* end every record in it has been added
C3_AppendedRecordsIngestedOnce ==
    /\ \A id \in 1..Len(WatchRecords) : TimesIngested(id) <= 1
    /\ CaughtUp => \A id \in AppendedIds : TimesIngested(id) = 1

\* the output files a pass at time t is configured to write
Destinations(t) ==
    (IF Truthy(w_cfg.output_csv)
     THEN {w_cfg.output_csv.txt \o "_" \o TimeSuffix(t) \o ".csv"} ELSE {})
    \cup
    (IF Truthy(w_cfg.output_json)
     THEN {w_cfg.output_json.txt \o "_" \o TimeSuffix(t) \o ".json"} ELSE {})

\* C4: a windowing pass whose records produce at least one window leaves a
\* file with those windows at every configured destination
C4_PassWritesItsWindows ==
    \A i \in 1..Len(passes) :
        passes[i].windows # <<>> =>
            \A name \in Destinations(passes[i].time) : name \in DOMAIN files

\* ------------------------------------------------- calls without a window
\* no record of the call's data is kept by filter_and_process_data
NoRecordKept ==
    \A i \in 1..Len(ep_data) :
        ProcessEntry(ep_data[i], EcuFilters(ep_filter)).act # "keep"

\* the call is a windowing call of which no window can come
ZeroWindows(call) ==
    \/ ep_data = <<>>
    \/ (call = "csv" \/ ep_length # None) /\ NoRecordKept

\* C11: a call of dict_to_csv or dict_to_json that produces no window (its
\* data is empty, or every record of it is rejected) returns without an error
\* and without creating or writing its output file.
C11_ZeroWindowsNoFileNoError ==
    \A call \in DOMAIN ep_out :
        ZeroWindows(call) =>
            /\ ep_out[call] = "returned"
            /\ files = NoFiles

\* ------------------------------------------------ the record normaliser
\* the timestamp of the record at position j of the output
KeptTimestamp(j) == Get(fp_data[fp_kept[j]], "timestamp")

\* t is a finite number with 0 < t <= 9999999999
FiniteInRange(t) ==
    /\ t.tag = "num"
    /\ \/ t.hi = 0 /\ t.num > 0
       \/ t.hi > 0 /\ t.hi < MaxTimestampHi
       \/ t.hi = MaxTimestampHi /\ t.num <= MaxTimestampLo

\* C12: filter_and_process_data outputs a record only if the timestamp of the
\* input record is a finite number t with 0 < t <= 9999999999.
C12_KeptTimestampsFiniteInRange ==
    \A j \in 1..Len(fp_kept) : FiniteInRange(KeptTimestamp(j))

\* the keys of the parsed payload p whose value is an integer or a
\* floating-point number (a boolean and a string are neither)
NumbersOf(p) ==
    IF p.ok /\ p.kind = "dict" THEN {k \in DOMAIN p.val : p.val[k].tag = "num"} ELSE {}

\* those keys for the payload of the record at position j of the output
KeptNumbers(j) == NumbersOf(SafeParseJson(Get(fp_data[fp_kept[j]], "data")))

\* C13: a record that filter_and_process_data outputs carries exactly the
\* payload keys whose value is an integer or a floating-point number, and at
\* least one; booleans and strings are dropped.
C13_KeepsOnlyNumbers ==
    \A j \in 1..Len(fp_kept) :
        /\ DOMAIN fp_out[j] \ {"timestamp"} = KeptNumbers(j)
        /\ KeptNumbers(j) # {}

\* C14: no record makes filter_and_process_data raise; a record with a defect
\* is skipped and the loop goes on, in batch mode and in watch mode.
C14_NoRecordRaises == fp_pc # "raised"

\* the positions of data whose record is in the output
KeptPositions == {fp_kept[j] : j \in 1..Len(fp_kept)}

\* the source tag of the entry equals an entry of the filter, whatever the case
MatchesFilter(entry) ==
    /\ "name" \in DOMAIN entry
    /\ entry["name"].tag = "str"
    /\ \E f \in 1..Len(fp_filter) : Lower(entry["name"].txt) = Lower(fp_filter[f])

\* the entry is one that is kept when no filter is given
OtherwiseValid(entry) == ProcessEntry(entry, {}).act = "keep"

\* C15: with a source filter, the records that filter_and_process_data outputs
\* are exactly the otherwise-valid records whose source tag equals an entry of
\* the filter case-insensitively, in the order of the input.
C15_FilterKeepsMatchingSources ==
    fp_filter # <<>> =>
        /\ \A i \in 1..(fp_i - 1) :
              i \in KeptPositions <=> MatchesFilter(fp_data[i]) /\ OtherwiseValid(fp_data[i])
        /\ \A j \in 1..Len(fp_kept) :
              /\ j > 1 => fp_kept[j - 1] < fp_kept[j]
              /\ fp_out[j] = ProcessEntry(fp_data[fp_kept[j]], {}).rec

\* the call returned; a record whose tag differs from the filter entry only in
\* its case is in the output, a valid record of another source is not
C15_Witness ==
    /\ fp_pc = "returned"
    /\ fp_filter # <<>>
    /\ \E i \in KeptPositions :
          \A f \in 1..Len(fp_filter) : fp_data[i]["name"].txt # fp_filter[f]
    /\ \E i \in 1..Len(fp_data) :
          /\ i \notin KeptPositions
          /\ OtherwiseValid(fp_data[i])

\* the source tag of the entry is missing, empty or holds "unknown"
UnknownSource(entry) ==
    \/ "name" \notin DOMAIN entry
    \/ entry["name"].tag # "str"
    \/ entry["name"].txt = ""
    \/ Contains(Lower(entry["name"].txt), "unknown")

\* C16: without a source filter, a record whose source tag is missing, empty
\* or holds "unknown" in any case is in no output of the normaliser, and so
\* in no window, in batch mode and in watch mode.
C16_UnknownSourceNeverKept ==
    (fp_filter = <<>> /\ fp_mode \in {"batch", "watch"}) =>
        \A i \in KeptPositions : ~UnknownSource(fp_data[i])

\* ------------------------------------------------- the window configuration
\* v is a number that is not positive
NonPositive(v) == v # None /\ v.num <= 0

\* C17: a call of dict_to_csv or dict_to_json with a window length or a step
\* that is not positive is rejected before anything is processed: the call
\* returns, and no output is written.
C17_NonPositiveConfigRejected ==
    \A call \in DOMAIN ep_out :
        (NonPositive(ep_length) \/ NonPositive(ep_step)) =>
            /\ ep_out[call] = "returned"
            /\ files = NoFiles

\* ------------------------------------------------------- a failing write
\* the call has something to write: with a destination that can be opened it
\* writes its file
WouldWrite(call) ==
    IF call = "csv"
    THEN DictToCsv(ep_data, ep_length.num, "out.csv", ep_step, ep_filter,
                   FALSE, 1, NoFiles, "ok").files # NoFiles
    ELSE DictToJson(ep_data, "out.json", ep_length, ep_step, ep_filter,
                    FALSE, 1, NoFiles, "ok").files # NoFiles

\* C18: a call of dict_to_csv or dict_to_json whose destination cannot be
\* opened or written ends with an I/O error raised to its caller.
C18_WriteFailureRaised ==
    \A call \in DOMAIN ep_out :
        (ep_io = "fail" /\ WouldWrite(call)) => ep_out[call] = "raised"

\* ---------------------------------------------------- the end of the loop
\* C19: the watch loop is left only by a cancellation signal: no missing
\* source, no failed read and no failed pass ends it with an exception.
C19_LoopEndsOnlyByCancel == w_pc # "stopped"

\* ------------------------------------------------ the end of create_windows
\* C20: for a finite record set, a positive window length and a positive step,
\* the window loop of create_windows ends.
C20_WindowLoopTerminates == <>(cw_pc = "done")


\* ---------------------------------------------------------------- C21
\* the records of data in the order given by the permutation p
Permuted(data, p) == [i \in 1..Len(data) |-> data[p[i]]]

\* the windows create_windows returns for the records in the order p
WindowsOf(p) == CreateWindows(Permuted(cw_data, p), cw_length, Num(cw_step))

\* the statistics whose value is a rounded sum over the rows of the window
RoundedKeys(row) == {StatKey(stat, key) : stat \in {"mean", "std"}, key \in FieldNames} \cap DOMAIN row

\* a window without the statistics that are rounded sums
Unrounded(row) == [k \in DOMAIN row \ RoundedKeys(row) |-> row[k]]

SameUnrounded(ws, vs) ==
    /\ Len(ws) = Len(vs)
    /\ \A i \in 1..Len(ws) : DOMAIN ws[i] = DOMAIN vs[i] /\ Unrounded(ws[i]) = Unrounded(vs[i])

DistinctTimestamps ==
    \A i, j \in 1..Len(cw_data) : i # j => cw_data[i]["timestamp"] # cw_data[j]["timestamp"]

Ascending(ws) ==
    \A i, j \in 1..Len(ws) :
        i < j => /\ ws[i]["window_start"].num < ws[j]["window_start"].num
                 /\ ws[i]["window_index"].num < ws[j]["window_index"].num

\* C21 as stated: the windows returned for the records in any order are the
\* windows returned for them in the given order, and they are in ascending
\* order of start time and of index
C21_SameForEveryPermutation ==
    cw_pc = "done" =>
        /\ \A p \in Permutations(1..Len(cw_data)) : WindowsOf(p) = Results
        /\ Ascending(Results)

\* C21: the windows returned for the records in any order have the index,
\* start, end, fields, minimum and maximum of the windows returned for them
\* in the given order, and are those windows altogether when no two records
\* share a timestamp; the windows are in ascending order of start time and
\* of index
C21_SameUpToTieOrder ==
    cw_pc = "done" =>
        /\ \A p \in Permutations(1..Len(cw_data)) :
              /\ SameUnrounded(WindowsOf(p), Results)
              /\ DistinctTimestamps => WindowsOf(p) = Results
        /\ Ascending(Results)

\* C21: a call has returned two windows or more for records that were not
\* in timestamp order and of which two share a timestamp
C21_Witness ==
    /\ cw_pc = "done"
    /\ Len(Results) >= 2
    /\ cw_data # cw_df
    /\ ~DistinctTimestamps


\* ---------------------------------------------------------------- C22
\* the text an iteration of the loop reads: the source after last_position
NewData == SubSeq(src_text, last_position + 1, Len(src_text))

\* the iteration that is taken reads the source
ReadsSource == w_pc = "watching" /\ last_modified_time' # last_modified_time

\* the text is one JSON array
IsArrayText(text) == LoadsSource(text).ok /\ LoadsSource(text).kind = "list"

\* the JSON objects on the lines of the text, line by line
RECURSIVE ObjectLines(_)
ObjectLines(lines) ==
    IF lines = <<>> THEN <<>>
    ELSE (IF LoadsSource(lines[1]).ok /\ LoadsSource(lines[1]).kind = "dict"
          THEN LoadsSource(lines[1]).items ELSE <<>>)
         \o ObjectLines(Tail(lines))

\* the objects the iteration that is taken adds to accumulated_data
AppendedObjects ==
    SelectSeq(SubSeq(ingested', Len(ingested) + 1, Len(ingested')),
              LAMBDA e : e # ListEntry)

\* C22: an iteration that reads text which is not one JSON array adds to
\* accumulated_data the object of every line that parses as a JSON object,
\* in order, also when the text is one such line
C22_ObjectLinesAppended ==
    [][(ReadsSource /\ ~IsArrayText(NewData))
          => AppendedObjects = ObjectLines(SplitLines(NewData, <<>>))]_vars


\* ---------------------------------------------------------------- C23
\* the step is an iteration of the loop that ran to its sleep
TickTaken == w_pc = "watching" /\ now' # now

\* a windowing pass is due: records are pending and window_length has gone by
\* since the last pass
PassDue == accumulated_data # <<>> /\ (now - last_processed_time) >= w_cfg.window_length

\* C23: on every iteration of the loop on which records are pending and
\* window_length has gone by since the last pass, a windowing pass runs, also
\* when the source was not modified
C23_DuePassRuns ==
    [][(TickTaken /\ PassDue) => Len(passes') = Len(passes) + 1]_vars



\* ---------------------------------------------------------------- C24
\* C24: when the signal arrives while a windowing pass is in progress, the
\* loop stops only after the pass has run to its end: accumulated_data is
\* cleared and last_processed_time is the time of the pass
C24_PassCompletesBeforeStop ==
    w_pc = "interrupted" => accumulated_data = <<>> /\ last_processed_time = now


\* ---------------------------------------------------------------- C25
\* accumulated_data after the read of the iteration that is taken
PendingAfterRead ==
    accumulated_data \o SubSeq(ingested', Len(ingested) + 1, Len(ingested'))

\* the iteration that is taken starts a windowing pass (line 699) and no
\* signal arrives during it
PassStarts ==
    /\ ReadsSource
    /\ PendingAfterRead # <<>>
    /\ (now - last_processed_time) >= w_cfg.window_length
    /\ w_pc' # "interrupted"

\* C25: every windowing pass ends with accumulated_data empty and
\* last_processed_time set to the time of the pass, and leaves last_position
\* where the read of its iteration put it
C25_PassClearsPending ==
    [][PassStarts => /\ accumulated_data' = <<>>
                     /\ last_processed_time' = now
                     /\ last_position' = Tell]_vars


\* ---------------------------------------------------------------- C26
\* the passes of the session that had windows to save (lines 709-724)
SavingPasses == {i \in 1..Len(passes) : passes[i].windows # <<>>}

Tokens(text) == SelectSeq(text, LAMBDA p : p # Lit("\n"))

\* the tokens are a JSON array of n items: a bracket, the items with one
\* comma between two of them, a bracket
IsArrayOf(toks, n) ==
    /\ Len(toks) = (IF n = 0 THEN 2 ELSE 2 * n + 1)
    /\ toks[1] = Lit("[")
    /\ toks[Len(toks)] = Lit("]")
    /\ \A k \in 1..n : toks[2 * k].obj # <<>>
    /\ \A k \in 1..(n - 1) : toks[2 * k + 1] = Lit(",")

\* the items of such an array
ArrayItemsOf(toks, n) == [k \in 1..n |-> toks[2 * k].obj[1]]

\* the items dict_to_json is to write: the windows of data, or data itself
\* when no window_length is given
ItemsToWrite ==
    IF sk_length = None THEN sk_data
    ELSE CreateWindows(FilterAndProcessData(sk_data, <<>>).value, sk_length.num, sk_step)

\* C27: the file dict_to_json writes in buffered mode is one JSON array, with
\* one bracket at each end and one comma between two items, also where two
\* chunks meet, and its items are the items to write, in order
C27_BufferedJsonIsOneArray ==
    Written("buffered.json") =>
        /\ IsArrayOf(Tokens(files["buffered.json"]), Len(ItemsToWrite))
        /\ ArrayItemsOf(Tokens(files["buffered.json"]), Len(ItemsToWrite)) = ItemsToWrite

\* C27: a buffered file of three items or more, written in chunks of two
C27_Witness ==
    /\ Written("buffered.json")
    /\ Len(ItemsToWrite) >= 3
    /\ sk_size = 2


\* ---------------------------------------------------------------- C28
\* C28: an iteration of the loop on which the source does not exist leaves
\* the loop watching and last_position, accumulated_data, last_modified_time
\* and last_processed_time as they were
C28_MissingSourceTickWaits ==
    [][(TickTaken /\ ~src_exists)
          => /\ w_pc' = "watching"
             /\ UNCHANGED <<last_position, accumulated_data, last_modified_time,
                            last_processed_time>>]_vars

\* C28: the loop is about to run an iteration, after others, on a source
\* that was read, has left records pending, and does not exist any more
C28_Witness ==
    /\ w_pc = "watching"
    /\ ~src_exists
    /\ StartTime < now /\ now < StartTime + MaxTicks
    /\ last_position > 0
    /\ accumulated_data # <<>>


\* ---------------------------------------------------------------- C29
\* the source tag of the entry holds "unknown" in any case
NamedUnknown(entry) ==
    /\ "name" \in DOMAIN entry
    /\ entry["name"].tag = "str"
    /\ Contains(Lower(entry["name"].txt), "unknown")

\* C29: in the batch pipeline with a source filter, a valid record of the
\* file whose source tag holds "unknown" and equals a filter entry
\* case-insensitively is in the output of the normaliser
C29_FilteredUnknownSourceKept ==
    (fp_mode = "batch" /\ fp_pc = "returned" /\ fp_filter # <<>>) =>
        \A i \in 1..Len(fp_raw) :
            (NamedUnknown(fp_raw[i]) /\ MatchesFilter(fp_raw[i]) /\ OtherwiseValid(fp_raw[i]))
                => \E j \in 1..Len(fp_out) : fp_out[j] = ProcessEntry(fp_raw[i], {}).rec


\* ---------------------------------------------------------------- C30
\* the emitted windows whose interval holds the timestamp of record j
WindowsWith(j) == {i \in 1..Len(Results) : InWindow(j, Results[i])}

\* windows that touch or overlap: 0 < step <= window_length
NoGaps == 0 < cw_step /\ cw_step <= cw_length

\* every record is in an emitted window, and in one only when the windows
\* are adjacent
EveryRecordWindowed ==
    \A j \in 1..Len(cw_data) :
        /\ WindowsWith(j) # {}
        /\ cw_step = cw_length => Cardinality(WindowsWith(j)) = 1

\* a record of the input carries a field besides its timestamp
SomeField == \E j \in 1..Len(cw_data) : DOMAIN cw_data[j] # {"timestamp"}

====
